---- MODULE Spec2Model ----
(***************************************************************************)
(* A model of package oas2: the router builder (NewRouter), the request    *)
(* middlewares (query validator, body validator, path parameter extractor, *)
(* response body validator) and the primitive converter.                   *)
(*                                                                         *)
(* SpecRouter     : NewRouter building a router, then requests dispatched  *)
(*                  through the handlers it registered.                    *)
(* SpecMiddleware : one request passing through one middleware.            *)
(***************************************************************************)
EXTENDS Integers, Sequences, FiniteSets, TLC

(***************************************************************************)
(* Bounds of the model.                                                    *)
(***************************************************************************)
\* number of operations of the contract
NumOps == 2
\* longest list of options given to NewRouter
MaxOpts == 2
\* longest request or response payload, in bytes
MaxLen == 3
\* deepest chain of mounted routers a lookup follows
MaxDepth == 2
\* longest string the converter is given, beside the listed ones
MaxStr == 2
\* most values ConvertParameter is given
MaxVals == 2

VARIABLES
    \* ---- NewRouter (src/unnamed/part_000) ----
    options,     \* the options argument: a sequence of RouterOption
    handlers,    \* the OperationHandlers registry: the operation IDs it has
    basePath,    \* sw.BasePath, a sequence of path segments
    analysis,    \* analysis.New(sw).Operations(): "ok", or "fails" (it panics)
    rpc,         \* position in NewRouter: "idle", "options", "loop", "done",
                 \* or "panicked" (NewRouter left by a panic, nothing returned)
    opts,        \* the RouterOptions value: [logger, baseRouter, mws]
    optIdx,      \* index of the next option to apply
    pending,     \* operations the range loop has not visited yet
    routes,      \* router object -> set of [method, path, handler] it routes
    mounts,      \* router object -> set of [prefix, target] mounted on it
    subrouter,   \* local variable subrouter (0: not yet assigned)
    router,      \* local variable router (0: not yet assigned)
    log,         \* calls made on a logger: sequence of [logger, level, op]
    result,      \* NewRouter's return value: [router, err] (router 0: none)
    \* ---- a request dispatched through a registered handler ----
    dop,         \* operation whose route the request hit (0: no request)
    dchain,      \* layers of the handler still to run, outermost first
    dctxOp,      \* matched operation in the request's context (0: absent)
    dtrace,      \* layers run so far: sequence of [name, op, saw]
    \* ---- one request passing through one middleware (src/middleware.go) ----
    mw,          \* the middleware: "query", "body", "path", "response", "none"
    mpc,         \* position: "start", "next", "afterNext", "err", "done"
    mop,         \* GetOperation(req): the matched operation (id 0: nil)
    reqBody,     \* req.Body as it arrived: [kind, data]
    query,       \* req.URL.Query(): parameter name -> sequence of values
    rawPath,     \* what the injected extractor returns for each name
    consumed,    \* bytes the middleware has read from the body stream
    nextCalls,   \* calls of next.ServeHTTP
    nextSaw,     \* the request given to next: [op, pathParams, body]
    errCalls,    \* the error lists given to errHandler, one per call
    validated,   \* calls of ValidateBody / ValidateBySchema
    client,      \* what the client has received: [wroteHeader, status, body]
    handlerWrote,\* what the downstream handler wrote: [status, body]
    recorder,    \* the ResponseRecorder: [status, payload]
    \* ---- one call of the converter (src/convert.go) ----
    cmode,       \* the function called: "primitive", "parameter", "none"
    cvals,       \* the value(s) given: a sequence of strings
    ctyp,        \* the typ argument
    cformat,     \* the format argument
    cpc,         \* "start" before the call, "done" after it
    cres,        \* what the call returned: [err, value]
    \* ---- requests served concurrently by one pathParameterExtractor ----
    kreqs,       \* the *http.Request values: [live, op, raw, pathParams]
    kin,         \* the request each call was given, as it was at the call
    kloc,        \* the locals of each call: [pc, req, idx]
    ksaw         \* what next was served by each call: [calls, op, pathParams]

rvars == <<options, handlers, basePath, analysis, rpc, opts, optIdx, pending, routes,
           mounts, subrouter, router, log, result>>
dvars == <<dop, dchain, dctxOp, dtrace>>
mvars == <<mw, mpc, mop, reqBody, query, rawPath, consumed, nextCalls, nextSaw,
           errCalls, validated, client, handlerWrote, recorder>>
cvars == <<cmode, cvals, ctyp, cformat, cpc, cres>>
kvars == <<kreqs, kin, kloc, ksaw>>
vars == <<rvars, dvars, mvars, cvars, kvars>>

(***************************************************************************)
(* The contract: operations 1..NumOps, as analysis.New(sw).Operations()    *)
(* gives them: method -> path -> operation. (method, path) is unique.      *)
(***************************************************************************)
Ops == 1..NumOps
OpMethod(op) == IF op % 2 = 1 THEN "GET" ELSE "POST"
OpPath(op) == IF op <= 2 THEN <<"pet">> ELSE <<"store">>

\* router objects: the one defaultBaseRouter() makes, the caller's one
DefaultRouter == 1
CallerRouter == 2
Routers == {DefaultRouter, CallerRouter}

MwNames == {"A", "B"}
OptionSet == [kind : {"MiddlewareOpt"}, arg : MwNames]
             \cup {[kind |-> "LoggerOpt", arg |-> "L"],
                   [kind |-> "BaseRouterOpt", arg |-> "R"]}

RECURSIVE SeqsUpTo(_, _)
SeqsUpTo(S, n) ==
    IF n = 0 THEN {<<>>}
    ELSE LET shorter == SeqsUpTo(S, n - 1)
         IN shorter \cup {Append(s, x) : s \in {t \in shorter : Len(t) = n - 1}, x \in S}

RECURSIVE Reverse(_)
Reverse(s) == IF s = <<>> THEN <<>> ELSE Append(Reverse(Tail(s)), Head(s))

IsPrefix(p, s) == Len(p) <= Len(s) /\ SubSeq(s, 1, Len(p)) = p

(***************************************************************************)
(* Handlers are sequences of layers, outermost first. Wrapping a handler   *)
(* with a middleware puts the middleware's layer in front.                 *)
(***************************************************************************)
HandlerOf(id) == <<[kind |-> "handler", name |-> "H", op |-> id]>>
Wrap(name, handler) == <<[kind |-> "mw", name |-> name, op |-> 0]>> \o handler
operationIDMiddleware(handler, op) ==
    <<[kind |-> "stamp", name |-> "stamp", op |-> op]>> \o handler

\* part_000:42-44  for _, mwf := range opts.mws { handler = mwf(handler) }
RECURSIVE ApplyMws(_, _)
ApplyMws(mws, handler) ==
    IF mws = <<>> THEN handler
    ELSE ApplyMws(Tail(mws), Wrap(Head(mws), handler))

\* a slip: the stamp applied before the custom middlewares
BuildHandlerStampInside(mws, handler, op) ==
    ApplyMws(mws, operationIDMiddleware(handler, op))
\* a slip: the custom middlewares applied from the last to the first
BuildHandlerReversed(mws, handler, op) ==
    operationIDMiddleware(ApplyMws(Reverse(mws), handler), op)
\* part_000:40-47  custom middlewares in order, then the stamp
BuildHandler(mws, handler, op) ==
    operationIDMiddleware(ApplyMws(mws, handler), op)

(***************************************************************************)
(* NewRouter                                                               *)
(***************************************************************************)
\* part_000:19-23  default options
DefaultOpts == [logger |-> "discard", baseRouter |-> DefaultRouter, mws |-> <<>>]

\* part_000:68-88  LoggerOpt, BaseRouterOpt, MiddlewareOpt
ApplyOpt(o, args) ==
    CASE o.kind = "LoggerOpt" -> [args EXCEPT !.logger = "L"]
      [] o.kind = "BaseRouterOpt" -> [args EXCEPT !.baseRouter = CallerRouter]
      [] o.kind = "MiddlewareOpt" -> [args EXCEPT !.mws = Append(args.mws, o.arg)]

InitDispatch ==
    /\ dop = 0
    /\ dchain = <<>>
    /\ dctxOp = 0
    /\ dtrace = <<>>

InitRouter ==
    /\ options \in SeqsUpTo(OptionSet, MaxOpts)
    /\ handlers \in SUBSET Ops
    /\ basePath \in {<<>>, <<"v1">>}
    /\ analysis \in {"ok", "fails"}
    /\ rpc = "options"
    /\ opts = DefaultOpts
    /\ optIdx = 1
    /\ pending = {}
    /\ routes = [r \in Routers |-> {}]
    /\ mounts = [r \in Routers |-> {}]
    /\ subrouter = 0
    /\ router = 0
    /\ log = <<>>
    /\ result = [router |-> 0, err |-> "none"]
    /\ InitDispatch

\* part_000:26-28  for _, o := range options { o(&opts) }
NR_ApplyOption ==
    /\ rpc = "options"
    /\ optIdx <= Len(options)
    /\ opts' = ApplyOpt(options[optIdx], opts)
    /\ optIdx' = optIdx + 1
    /\ UNCHANGED <<options, handlers, basePath, analysis, rpc, pending, routes, mounts,
                   subrouter, router, log, result>>
    /\ UNCHANGED <<dvars, mvars, cvars, kvars>>

\* part_000:31-32  subrouter := opts.baseRouter; then the Operations view
\* is asked of the analysis, which has no error result: when it fails it
\* panics, and the panic leaves NewRouter, which recovers nothing
NR_Subrouter ==
    /\ rpc = "options"
    /\ optIdx > Len(options)
    /\ subrouter' = opts.baseRouter
    /\ IF analysis = "fails"
       THEN pending' = {} /\ rpc' = "panicked"
       ELSE pending' = Ops /\ rpc' = "loop"
    /\ UNCHANGED <<options, handlers, basePath, analysis, opts, optIdx, routes, mounts,
                   router, log, result>>
    /\ UNCHANGED <<dvars, mvars, cvars, kvars>>

\* BaseRouter.Route(method, path, handler) on router object r
Route(r, method, path, handler) ==
    [routes EXCEPT ![r] =
        {e \in @ : ~(e.method = method /\ e.path = path)}
        \cup {[method |-> method, path |-> path, handler |-> handler]}]

LogCall(level, op) == Append(log, [logger |-> opts.logger, level |-> level, op |-> op])

\* a slip: the missing handler is logged but the operation is routed anyway
NR_VisitNoContinue(op) ==
    /\ log' = LogCall("warn", op)
    /\ routes' = Route(subrouter, OpMethod(op), OpPath(op),
                       BuildHandler(opts.mws, HandlerOf(op), op))
\* part_000:35-38  no handler registered: warn and continue
NR_VisitMissing(op) ==
    /\ log' = LogCall("warn", op)
    /\ UNCHANGED routes

\* a slip: the handler variable outlives the iteration, so an operation
\* is wrapped around the handler built for the operation before it
NR_VisitRoutedAccumulating(op) ==
    /\ log' = LogCall("debug", op)
    /\ routes' = Route(subrouter, OpMethod(op), OpPath(op),
                       BuildHandler(opts.mws,
                                    IF routes[subrouter] = {} THEN HandlerOf(op)
                                    ELSE (CHOOSE e \in routes[subrouter] : TRUE).handler,
                                    op))
\* part_000:40-48  wrap the handler, log, register the route
NR_VisitRouted(op) ==
    /\ log' = LogCall("debug", op)
    /\ routes' = Route(subrouter, OpMethod(op), OpPath(op),
                       BuildHandler(opts.mws, HandlerOf(op), op))

\* part_000:32-50  one iteration of the loop over the operations; a Go map
\* is ranged over in no particular order
NR_VisitOperation ==
    /\ rpc = "loop"
    /\ \E op \in pending :
        /\ pending' = pending \ {op}
        /\ IF op \in handlers THEN NR_VisitRouted(op) ELSE NR_VisitMissing(op)
    /\ UNCHANGED <<options, handlers, basePath, analysis, rpc, opts, optIdx, mounts,
                   subrouter, router, result>>
    /\ UNCHANGED <<dvars, mvars, cvars, kvars>>

\* part_000:52-55  router := opts.baseRouter; router.Mount(sw.BasePath, subrouter)
NR_Mount ==
    /\ rpc = "loop"
    /\ pending = {}
    /\ router' = opts.baseRouter
    /\ mounts' = [mounts EXCEPT ![opts.baseRouter] =
                     @ \cup {[prefix |-> basePath, target |-> subrouter]}]
    /\ result' = [router |-> opts.baseRouter, err |-> "nil"]
    /\ rpc' = "done"
    /\ UNCHANGED <<options, handlers, basePath, analysis, opts, optIdx, pending, routes,
                   subrouter, log>>
    /\ UNCHANGED <<dvars, mvars, cvars, kvars>>

(***************************************************************************)
(* Serving: the routing engine finds the handler of a request, and the     *)
(* handler's layers run from the outermost to the innermost.               *)
(***************************************************************************)
\* the routes router r can reach for (method, path), following mounts
RECURSIVE Resolve(_, _, _, _)
Resolve(r, method, path, depth) ==
    {x \in routes[r] : x.method = method /\ x.path = path}
    \cup
    (IF depth = 0 THEN {}
     ELSE UNION {Resolve(m.target, method,
                         SubSeq(path, Len(m.prefix) + 1, Len(path)), depth - 1)
                 : m \in {x \in mounts[r] : IsPrefix(x.prefix, path)}})

RequestPaths == {OpPath(op) : op \in Ops} \cup {<<"v1">> \o OpPath(op) : op \in Ops}

\* the operation the contract declares at (method, path)
OpAt(method, path) == CHOOSE op \in Ops : OpMethod(op) = method /\ OpPath(op) = path

\* a request arrives at the returned router and is routed to a handler
Dispatch ==
    /\ rpc = "done"
    /\ dchain = <<>>
    /\ \E method \in {"GET", "POST"}, path \in RequestPaths :
        \E e \in Resolve(result.router, method, path, MaxDepth) :
            /\ dop' = OpAt(e.method, e.path)
            /\ dchain' = e.handler
            /\ dctxOp' = 0
            /\ dtrace' = <<>>
    /\ UNCHANGED <<rvars, mvars, cvars, kvars>>

\* operationIDMiddleware: puts the operation in the request's context
RunStamp(layer) ==
    /\ dctxOp' = layer.op
    /\ dtrace' = Append(dtrace, [name |-> layer.name, op |-> layer.op, saw |-> layer.op])

\* a custom middleware or the operation handler: GetOperation(req), then on
RunLayer(layer) ==
    /\ dctxOp' = dctxOp
    /\ dtrace' = Append(dtrace, [name |-> layer.name, op |-> layer.op, saw |-> dctxOp])

\* the outermost remaining layer runs and calls the next one
StepLayer ==
    /\ dchain # <<>>
    /\ IF Head(dchain).kind = "stamp" THEN RunStamp(Head(dchain)) ELSE RunLayer(Head(dchain))
    /\ dchain' = Tail(dchain)
    /\ UNCHANGED dop
    /\ UNCHANGED <<rvars, mvars, cvars, kvars>>

NextRouter == NR_ApplyOption \/ NR_Subrouter \/ NR_VisitOperation \/ NR_Mount
              \/ Dispatch \/ StepLayer

\* no router is being built
IdleRouter ==
    /\ options = <<>>
    /\ handlers = {}
    /\ basePath = <<>>
    /\ analysis = "ok"
    /\ rpc = "idle"
    /\ opts = DefaultOpts
    /\ optIdx = 1
    /\ pending = {}
    /\ routes = [r \in Routers |-> {}]
    /\ mounts = [r \in Routers |-> {}]
    /\ subrouter = 0
    /\ router = 0
    /\ log = <<>>
    /\ result = [router |-> 0, err |-> "none"]
    /\ InitDispatch


(***************************************************************************)
(* The primitive converter (src/convert.go). Strings are sequences of      *)
(* one-character strings; a converted value is [typ, v] with v the value's *)
(* canonical text: the characters of a string, the sign and digits of a    *)
(* number without leading zeros, <<"true">> or <<"false">>.                *)
(***************************************************************************)
Digits == <<"0", "1", "2", "3", "4", "5", "6", "7", "8", "9">>
IsDigit(c) == \E i \in 1..Len(Digits) : Digits[i] = c
DigitVal(c) == (CHOOSE i \in 1..Len(Digits) : Digits[i] = c) - 1

UpperChars == <<"A", "B", "C", "D", "E", "F", "G", "H", "I", "J", "K", "L", "M",
                "N", "O", "P", "Q", "R", "S", "T", "U", "V", "W", "X", "Y", "Z">>
LowerChars == <<"a", "b", "c", "d", "e", "f", "g", "h", "i", "j", "k", "l", "m",
                "n", "o", "p", "q", "r", "s", "t", "u", "v", "w", "x", "y", "z">>
LowerChar(c) ==
    IF \E i \in 1..Len(UpperChars) : UpperChars[i] = c
    THEN LowerChars[CHOOSE i \in 1..Len(UpperChars) : UpperChars[i] = c]
    ELSE c
\* strings.ToLower, on ASCII text
ToLower(s) == [i \in 1..Len(s) |-> LowerChar(s[i])]

NilValue == [typ |-> "nil", v |-> <<>>]
Failed == [err |-> TRUE, value |-> NilValue]
Converted(typ, v) == [err |-> FALSE, value |-> [typ |-> typ, v |-> v]]

RECURSIVE StripZeros(_)
StripZeros(d) == IF Len(d) > 1 /\ Head(d) = "0" THEN StripZeros(Tail(d)) ELSE d

\* a <= b for digit sequences without leading zeros
RECURSIVE DigitsLeq(_, _)
DigitsLeq(a, b) ==
    IF Len(a) # Len(b) THEN Len(a) < Len(b)
    ELSE IF a = <<>> THEN TRUE
    ELSE IF Head(a) # Head(b) THEN DigitVal(Head(a)) < DigitVal(Head(b))
    ELSE DigitsLeq(Tail(a), Tail(b))

\* 2^31 - 1 and 2^31, 2^63 - 1 and 2^63, as digits
MaxInt32 == <<"2", "1", "4", "7", "4", "8", "3", "6", "4", "7">>
MinInt32Mag == <<"2", "1", "4", "7", "4", "8", "3", "6", "4", "8">>
MaxInt64 == <<"9", "2", "2", "3", "3", "7", "2", "0", "3", "6",
              "8", "5", "4", "7", "7", "5", "8", "0", "7">>
MinInt64Mag == <<"9", "2", "2", "3", "3", "7", "2", "0", "3", "6",
                 "8", "5", "4", "7", "7", "5", "8", "0", "8">>

HasSign(s) == s # <<>> /\ Head(s) \in {"+", "-"}
Unsigned(s) == IF HasSign(s) THEN Tail(s) ELSE s
\* an optional sign, then one or more decimal digits
IsDecimal(s) == Unsigned(s) # <<>> /\ \A i \in 1..Len(Unsigned(s)) : IsDigit(Unsigned(s)[i])
Negative(s) == HasSign(s) /\ Head(s) = "-"
\* the canonical text of the decimal number s
Canonical(s) ==
    LET mag == StripZeros(Unsigned(s))
    IN IF Negative(s) /\ mag # <<"0">> THEN <<"-">> \o mag ELSE mag

\* strconv.ParseInt(val, 10, bits): a syntax error unless val is a signed
\* run of digits, a range error unless it fits bits bits
ParseInt(val, bits) ==
    LET mag == StripZeros(Unsigned(val))
        top == IF bits = 32 THEN MaxInt32 ELSE MaxInt64
        bottom == IF bits = 32 THEN MinInt32Mag ELSE MinInt64Mag
    IN IF ~IsDecimal(val) THEN [err |-> TRUE, v |-> <<>>]
       ELSE IF ~DigitsLeq(mag, IF Negative(val) THEN bottom ELSE top)
       THEN [err |-> TRUE, v |-> <<>>]
       ELSE [err |-> FALSE, v |-> Canonical(val)]

\* strconv.ParseFloat(val, bits) on the texts of the model, which hold no
\* '.', exponent, hexadecimal prefix, underscore, "inf" or "nan": it
\* succeeds exactly on a signed run of digits
ParseFloat(val, bits) ==
    IF ~IsDecimal(val) THEN [err |-> TRUE, v |-> <<>>]
    ELSE [err |-> FALSE, v |-> Canonical(val)]

\* convert.go:54-65
evaluatesAsTrue ==
    {<<"t", "r", "u", "e">>, <<"1">>, <<"y", "e", "s">>, <<"o", "k">>, <<"y">>,
     <<"o", "n">>, <<"s", "e", "l", "e", "c", "t", "e", "d">>,
     <<"c", "h", "e", "c", "k", "e", "d">>, <<"t">>,
     <<"e", "n", "a", "b", "l", "e", "d">>}

\* a slip: the format of a string is not looked at
convertStringAnyFormat(val, format) == Converted("string", val)
\* convert.go:67-78
convertString(val, format) ==
    IF format = "" THEN Converted("string", val) ELSE Failed

\* a slip: an int32 is parsed as 64 bits wide and not checked for range
convertIntegerNoRange32(val, format) ==
    CASE format \in {"int32", "int64", ""} ->
            LET r == ParseInt(val, 64)
            IN IF r.err THEN Failed
               ELSE Converted(IF format = "int32" THEN "int32" ELSE "int64", r.v)
      [] OTHER -> Failed
\* convert.go:80-102
convertInteger(val, format) ==
    CASE format = "int32" ->
            LET r == ParseInt(val, 32)
            IN IF r.err THEN Failed ELSE Converted("int32", r.v)
      [] format \in {"int64", ""} ->
            LET r == ParseInt(val, 64)
            IN IF r.err THEN Failed ELSE Converted("int64", r.v)
      [] OTHER -> Failed

\* convert.go:104-126
convertNumber(val, format) ==
    CASE format = "float" ->
            LET r == ParseFloat(val, 32)
            IN IF r.err THEN Failed ELSE Converted("float32", r.v)
      [] format \in {"double", ""} ->
            LET r == ParseFloat(val, 64)
            IN IF r.err THEN Failed ELSE Converted("float64", r.v)
      [] OTHER -> Failed

\* a slip: the value is compared as it is, not lower-cased
convertBooleanCaseSensitive(val) ==
    Converted("bool", IF val \in evaluatesAsTrue THEN <<"true">> ELSE <<"false">>)
\* convert.go:128-131
convertBoolean(val) ==
    Converted("bool", IF ToLower(val) \in evaluatesAsTrue THEN <<"true">> ELSE <<"false">>)

\* convert.go:36-52
ConvertPrimitive(val, typ, format) ==
    CASE typ = "string" -> convertString(val, format)
      [] typ = "number" -> convertNumber(val, format)
      [] typ = "integer" -> convertInteger(val, format)
      [] typ = "boolean" -> convertBoolean(val)
      [] OTHER -> Failed

\* a slip: only the absence of a value is an arity error
ConvertParameterFirstOfMany(vals, typ, format) ==
    IF typ = "array" THEN Failed
    ELSE IF typ = "file" THEN Failed
    ELSE IF Len(vals) < 1 THEN Failed
    ELSE ConvertPrimitive(vals[1], typ, format)
\* convert.go:12-31
ConvertParameter(vals, typ, format) ==
    IF typ = "array" THEN Failed
    ELSE IF typ = "file" THEN Failed
    ELSE IF Len(vals) # 1 THEN Failed
    ELSE ConvertPrimitive(vals[1], typ, format)

(***************************************************************************)
(* The data of a request passing through a middleware.                     *)
(***************************************************************************)
Names == {"id", "tag"}
NameOrder == <<"id", "tag">>
Statuses == {200, 404}

\* the shapes a declared parameter takes in the model
ParamShapes ==
    {[in |-> "path", type |-> "integer", format |-> "", required |-> TRUE],
     [in |-> "path", type |-> "integer", format |-> "int32", required |-> TRUE],
     [in |-> "path", type |-> "string", format |-> "", required |-> TRUE],
     [in |-> "path", type |-> "string", format |-> "date", required |-> TRUE],
     [in |-> "path", type |-> "boolean", format |-> "", required |-> TRUE],
     [in |-> "path", type |-> "array", format |-> "", required |-> TRUE],
     [in |-> "query", type |-> "integer", format |-> "", required |-> TRUE],
     [in |-> "query", type |-> "integer", format |-> "", required |-> FALSE],
     [in |-> "query", type |-> "string", format |-> "", required |-> TRUE]}
Undeclared == [in |-> "-", type |-> "-", format |-> "-", required |-> FALSE]

\* op.Parameters: the declared parameters, in order; (name, in) is unique
RECURSIVE ParamsOf(_, _)
ParamsOf(decl, names) ==
    IF names = <<>> THEN <<>>
    ELSE LET n == Head(names)
             rest == ParamsOf(decl, Tail(names))
         IN IF decl[n] = Undeclared THEN rest
            ELSE <<[name |-> n, in |-> decl[n].in, type |-> decl[n].type,
                    format |-> decl[n].format, required |-> decl[n].required]>> \o rest

\* texts a path variable or a query value takes in the model
RawValues ==
    {<<"1", "2">>, <<"a", "b", "c">>, <<"-", "1">>, <<>>, <<"T">>,
     <<"3", "0", "0", "0", "0", "0", "0", "0", "0", "0">>}
QueryValues ==
    {<<>>, << <<"1", "2">> >>, << <<"a", "b", "c">> >>, << <<"1", "2">>, <<"1", "2">> >>}

\* the bytes of payloads, and the payloads of at most MaxLen bytes
Bytes == {"1", "{", "}", " ", "x"}
Payloads == SeqsUpTo(Bytes, MaxLen)

\* schema shapes: what kind of JSON value the schema accepts
BodySchemas == {"none", "object", "number"}
RespShapes == {"absent", "noschema", "object"}

NoOperation ==
    [id |-> 0, params |-> <<>>, bodySchema |-> "none",
     responses |-> [st \in Statuses |-> "absent"]]
Operation(params, bodySchema, responses) ==
    [id |-> 1, params |-> params, bodySchema |-> bodySchema, responses |-> responses]

NoPathParams == [n \in Names |-> NilValue]
NoBody == [kind |-> "NoBody", data |-> <<>>]
FreshSink == [wroteHeader |-> FALSE, status |-> 0, body |-> <<>>]

\* http.ResponseWriter: the first WriteHeader fixes the status, a Write
\* before any WriteHeader sends 200
WriteHeader(w, st) ==
    IF w.wroteHeader THEN w ELSE [w EXCEPT !.wroteHeader = TRUE, !.status = st]
Write(w, data) ==
    LET h == WriteHeader(w, 200) IN [h EXCEPT !.body = @ \o data]

IdleMiddleware ==
    /\ mw = "none"
    /\ mpc = "done"
    /\ mop = NoOperation
    /\ reqBody = NoBody
    /\ query = [n \in Names |-> <<>>]
    /\ rawPath = [n \in Names |-> <<>>]
    /\ consumed = 0
    /\ nextCalls = 0
    /\ nextSaw = [op |-> 0, pathParams |-> NoPathParams, body |-> <<>>]
    /\ errCalls = <<>>
    /\ validated = 0
    /\ client = FreshSink
    /\ handlerWrote = [status |-> 0, body |-> <<>>]
    /\ recorder = [status |-> 0, payload |-> <<>>]

\* a request at the entry of a middleware, nothing run yet
FreshRequest ==
    /\ mpc = "start"
    /\ consumed = 0
    /\ nextCalls = 0
    /\ nextSaw = [op |-> 0, pathParams |-> NoPathParams, body |-> <<>>]
    /\ errCalls = <<>>
    /\ validated = 0
    /\ client = FreshSink
    /\ handlerWrote = [status |-> 0, body |-> <<>>]
    /\ recorder = [status |-> 0, payload |-> <<>>]

DeclaredOps ==
    {Operation(ParamsOf(decl, NameOrder), "none", [st \in Statuses |-> "absent"])
        : decl \in [Names -> ParamShapes \cup {Undeclared}]}

InitQuery ==
    /\ mw = "query"
    /\ mop \in {NoOperation} \cup DeclaredOps
    /\ reqBody = NoBody
    /\ query \in [Names -> QueryValues]
    /\ rawPath = [n \in Names |-> <<>>]
    /\ FreshRequest

InitPath ==
    /\ mw = "path"
    /\ mop \in {NoOperation} \cup DeclaredOps
    /\ reqBody = NoBody
    /\ query = [n \in Names |-> <<>>]
    /\ rawPath \in [Names -> RawValues]
    /\ FreshRequest

InitBody ==
    /\ mw = "body"
    /\ mop \in {NoOperation}
               \cup {Operation(<<>>, b, [st \in Statuses |-> "absent"]) : b \in BodySchemas}
    /\ reqBody \in {NoBody} \cup [kind : {"reader"}, data : Payloads]
    /\ query = [n \in Names |-> <<>>]
    /\ rawPath = [n \in Names |-> <<>>]
    /\ FreshRequest

InitResponse ==
    /\ mw = "response"
    /\ mop \in {NoOperation}
               \cup {Operation(<<>>, "none", r) : r \in [Statuses -> RespShapes]}
    /\ reqBody = NoBody
    /\ query = [n \in Names |-> <<>>]
    /\ rawPath = [n \in Names |-> <<>>]
    /\ FreshRequest

InitMiddleware == InitQuery \/ InitPath \/ InitBody \/ InitResponse

\* the request handed to next.ServeHTTP, and the call counted
CallNext(pathParams, body) ==
    /\ nextCalls' = nextCalls + 1
    /\ nextSaw' = [op |-> mop.id, pathParams |-> pathParams, body |-> body]
    /\ mpc' = "next"

\* m.errHandler(w, errs)
CallErrHandler(errs) ==
    /\ errCalls' = Append(errCalls, errs)
    /\ mpc' = "err"

(***************************************************************************)
(* JSON decoding of a payload over Bytes, as encoding/json scans it: a     *)
(* value is a run of digits or an object "{" spaces "}"; "x" is no JSON.   *)
(***************************************************************************)
Min(a, b) == IF a <= b THEN a ELSE b

RECURSIVE SkipSpace(_, _)
SkipSpace(s, i) == IF i <= Len(s) /\ s[i] = " " THEN SkipSpace(s, i + 1) ELSE i

RECURSIVE NumberEnd(_, _)
NumberEnd(s, i) == IF i + 1 <= Len(s) /\ IsDigit(s[i + 1]) THEN NumberEnd(s, i + 1) ELSE i

\* json.NewDecoder(r).Decode(&body): the first value of the stream. end is
\* the index of the value's last byte; need is how many bytes the decoder
\* must have read to decide (a number ends at the byte after it, or at EOF)
DecodeFirst(s) ==
    LET i == SkipSpace(s, 1)
    IN IF i > Len(s)
       THEN [ok |-> FALSE, kind |-> "", end |-> Len(s), need |-> Len(s)]
       ELSE IF IsDigit(s[i]) /\ s[i] # "0"
       THEN [ok |-> TRUE, kind |-> "number", end |-> NumberEnd(s, i),
             need |-> Min(NumberEnd(s, i) + 1, Len(s))]
       ELSE IF s[i] = "{"
       THEN LET k == SkipSpace(s, i + 1)
            IN IF k <= Len(s) /\ s[k] = "}"
               THEN [ok |-> TRUE, kind |-> "object", end |-> k, need |-> k]
               ELSE [ok |-> FALSE, kind |-> "", end |-> Min(k, Len(s)),
                     need |-> Min(k, Len(s))]
       ELSE [ok |-> FALSE, kind |-> "", end |-> i, need |-> i]

\* json.Unmarshal(data, &body): the whole of data must be one value
Unmarshal(s) ==
    LET d == DecodeFirst(s)
    IN [ok |-> d.ok /\ SkipSpace(s, d.end + 1) > Len(s), kind |-> d.kind]

\* the schema validator: the violations of a value of the given kind
SchemaViolations(schema, kind) ==
    IF schema = "none" \/ schema = kind THEN <<>>
    ELSE <<[param |-> "body", what |-> "schema"]>>

ValidateBody(op, kind) == SchemaViolations(op.bodySchema, kind)
ValidateBySchema(schema, kind) == SchemaViolations(schema, kind)

\* ValidateQuery(op.Parameters, req.URL.Query()): every query parameter is
\* checked, a missing required one and an unconvertible one are violations
RECURSIVE ValidateQuery(_, _)
ValidateQuery(params, q) ==
    IF params = <<>> THEN <<>>
    ELSE LET p == Head(params)
             rest == ValidateQuery(Tail(params), q)
         IN IF p.in # "query" THEN rest
            ELSE IF q[p.name] = <<>>
            THEN (IF p.required
                  THEN <<[param |-> p.name, what |-> "required"]>> \o rest
                  ELSE rest)
            ELSE IF ConvertParameter(q[p.name], p.type, p.format).err
            THEN <<[param |-> p.name, what |-> "invalid"]>> \o rest
            ELSE rest

(***************************************************************************)
(* The query validator                                                     *)
(***************************************************************************)
\* middleware.go:27
continueOnError == FALSE

\* a slip: only the first violation is handed to the error handler
QueryOnErrorsFirstOnly(errs) ==
    /\ CallErrHandler(<<Head(errs)>>)
    /\ UNCHANGED <<nextCalls, nextSaw>>
\* middleware.go:44-49  the error handler gets the whole list
QueryOnErrors(errs) ==
    /\ CallErrHandler(errs)
    /\ UNCHANGED <<nextCalls, nextSaw>>

\* middleware.go:36-53
Query_Apply ==
    /\ mw = "query"
    /\ mpc = "start"
    /\ IF mop.id = 0
       THEN CallNext(NoPathParams, reqBody.data) /\ UNCHANGED errCalls
       ELSE LET errs == ValidateQuery(mop.params, query)
            IN IF Len(errs) > 0
               THEN QueryOnErrors(errs)
               ELSE CallNext(NoPathParams, reqBody.data) /\ UNCHANGED errCalls
    /\ UNCHANGED <<mw, mop, reqBody, query, rawPath, consumed, validated, client,
                   handlerWrote, recorder>>
    /\ UNCHANGED <<rvars, dvars, cvars, kvars>>

(***************************************************************************)
(* The body validator                                                      *)
(***************************************************************************)
\* a slip: the violations are reported and the chain goes on
BodyOnViolationsContinue(errs, k) ==
    /\ errCalls' = Append(errCalls, errs)
    /\ CallNext(NoPathParams, SubSeq(reqBody.data, 1, k))
\* middleware.go:94-97  violations: the error handler, and return
BodyOnViolations(errs, k) ==
    /\ CallErrHandler(errs)
    /\ UNCHANGED <<nextCalls, nextSaw>>

\* middleware.go:88-91  the payload does not decode: one error, and return
BodyOnDecodeError ==
    /\ CallErrHandler(<<[param |-> "body", what |-> "Body contains invalid json"]>>)
    /\ UNCHANGED <<nextCalls, nextSaw, validated>>

\* middleware.go:83-102  the body is read through a TeeReader into b; the
\* decoder reads k bytes, at least those it needs for the first value and
\* at most the payload; b, the k bytes read, becomes the body
BodyDecodeAndValidate ==
    LET d == DecodeFirst(reqBody.data)
    IN \E k \in d.need..Len(reqBody.data) :
        /\ consumed' = k
        /\ IF ~d.ok
           THEN BodyOnDecodeError
           ELSE /\ validated' = validated + 1
                /\ LET errs == ValidateBody(mop, d.kind)
                   IN IF Len(errs) > 0
                      THEN BodyOnViolations(errs, k)
                      ELSE /\ CallNext(NoPathParams, SubSeq(reqBody.data, 1, k))
                           /\ UNCHANGED errCalls

\* a slip: the body is decoded although no operation is matched
Body_ApplyWithoutOperationCheck ==
    /\ mw = "body"
    /\ mpc = "start"
    /\ IF reqBody.kind = "NoBody"
       THEN /\ CallNext(NoPathParams, reqBody.data)
            /\ UNCHANGED <<consumed, errCalls, validated>>
       ELSE BodyDecodeAndValidate
    /\ UNCHANGED <<mw, mop, reqBody, query, rawPath, client, handlerWrote, recorder>>
    /\ UNCHANGED <<rvars, dvars, cvars, kvars>>
\* middleware.go:67-104
Body_Apply ==
    /\ mw = "body"
    /\ mpc = "start"
    /\ IF reqBody.kind = "NoBody" \/ mop.id = 0
       THEN /\ CallNext(NoPathParams, reqBody.data)
            /\ UNCHANGED <<consumed, errCalls, validated>>
       ELSE BodyDecodeAndValidate
    /\ UNCHANGED <<mw, mop, reqBody, query, rawPath, client, handlerWrote, recorder>>
    /\ UNCHANGED <<rvars, dvars, cvars, kvars>>

(***************************************************************************)
(* The path parameter extractor                                            *)
(***************************************************************************)
\* a slip: the location of the parameter is not looked at
RECURSIVE ExtractAnyLocation(_, _, _)
ExtractAnyLocation(params, raw, ctx) ==
    IF params = <<>> THEN ctx
    ELSE LET p == Head(params)
             r == ConvertPrimitive(raw[p.name], p.type, p.format)
         IN ExtractAnyLocation(Tail(params), raw,
                IF ~r.err THEN [ctx EXCEPT ![p.name] = r.value] ELSE ctx)
\* middleware.go:124-135  each path parameter is extracted and converted;
\* a converted value is put in a context derived from the request's
RECURSIVE ExtractParams(_, _, _)
ExtractParams(params, raw, ctx) ==
    IF params = <<>> THEN ctx
    ELSE LET p == Head(params)
             r == ConvertPrimitive(raw[p.name], p.type, p.format)
         IN ExtractParams(Tail(params), raw,
                IF p.in = "path" /\ ~r.err
                THEN [ctx EXCEPT ![p.name] = r.value]
                ELSE ctx)

\* middleware.go:144-146
GetPathParam(req, name) == req.pathParams[name]

\* middleware.go:116-139
Path_Apply ==
    /\ mw = "path"
    /\ mpc = "start"
    /\ IF mop.id = 0
       THEN CallNext(NoPathParams, reqBody.data)
       ELSE CallNext(ExtractParams(mop.params, rawPath, NoPathParams), reqBody.data)
    /\ UNCHANGED <<mw, mop, reqBody, query, rawPath, consumed, errCalls, validated,
                   client, handlerWrote, recorder>>
    /\ UNCHANGED <<rvars, dvars, cvars, kvars>>

(***************************************************************************)
(* The response body validator                                             *)
(***************************************************************************)
\* middleware.go:160-170  next is served, through a recorder when an
\* operation is matched
Resp_Apply ==
    /\ mw = "response"
    /\ mpc = "start"
    /\ CallNext(NoPathParams, reqBody.data)
    /\ UNCHANGED <<mw, mop, reqBody, query, rawPath, consumed, errCalls, validated,
                   client, handlerWrote, recorder>>
    /\ UNCHANGED <<rvars, dvars, cvars, kvars>>

\* a slip: a payload that does not decode is reported to the error handler
RespOnDecodeErrorReported ==
    /\ CallErrHandler(<<[param |-> "body", what |-> "invalid json"]>>)
    /\ UNCHANGED validated
\* middleware.go:184-187  the payload does not decode: return, silently
RespOnDecodeError ==
    /\ mpc' = "done"
    /\ UNCHANGED <<errCalls, validated>>

\* middleware.go:172-191  after next returned
Resp_AfterNext ==
    /\ mw = "response"
    /\ mpc = "afterNext"
    /\ LET responseSpec == mop.responses[recorder.status]
           body == Unmarshal(recorder.payload)
       IN IF responseSpec = "absent" \/ responseSpec = "noschema"
          THEN mpc' = "done" /\ UNCHANGED <<errCalls, validated>>
          ELSE IF ~body.ok
          THEN RespOnDecodeError
          ELSE /\ validated' = validated + 1
               /\ LET errs == ValidateBySchema(responseSpec, body.kind)
                  IN IF Len(errs) > 0
                     THEN CallErrHandler(errs)
                     ELSE mpc' = "done" /\ UNCHANGED errCalls
    /\ UNCHANGED <<mw, mop, reqBody, query, rawPath, consumed, nextCalls, nextSaw,
                   client, handlerWrote, recorder>>
    /\ UNCHANGED <<rvars, dvars, cvars, kvars>>

(***************************************************************************)
(* The environment: the downstream handler and the error handler           *)
(***************************************************************************)
HandlerOutputs == IF mw = "response" THEN Payloads ELSE {<<"{", "}">>}

\* the downstream handler runs: it writes a status and a payload to the
\* sink it was given; the recorder passes the writes on and keeps them
NextServe ==
    /\ mpc = "next"
    /\ \E st \in Statuses, data \in HandlerOutputs :
        /\ client' = Write(WriteHeader(client, st), data)
        /\ handlerWrote' = [status |-> st, body |-> data]
        /\ IF mw = "response" /\ mop.id # 0
           THEN /\ recorder' = [status |-> st, payload |-> data]
                /\ mpc' = "afterNext"
           ELSE /\ UNCHANGED recorder
                /\ mpc' = "done"
    /\ UNCHANGED <<mw, mop, reqBody, query, rawPath, consumed, nextCalls, nextSaw,
                   errCalls, validated>>
    /\ UNCHANGED <<rvars, dvars, cvars, kvars>>

\* what an error handler does with the sink: nothing, or a status and text
ErrWrites ==
    {[write |-> FALSE, status |-> 0, body |-> <<>>],
     [write |-> TRUE, status |-> 400, body |-> <<"x">>]}

\* the error handler runs with the sink w and returns; the query validator
\* goes on to next only if continueOnError (middleware.go:46-51)
ErrHandle ==
    /\ mpc = "err"
    /\ \E wr \in ErrWrites :
        client' = IF wr.write THEN Write(WriteHeader(client, wr.status), wr.body)
                  ELSE client
    /\ IF mw = "query" /\ continueOnError
       THEN CallNext(NoPathParams, reqBody.data)
       ELSE mpc' = "done" /\ UNCHANGED <<nextCalls, nextSaw>>
    /\ UNCHANGED <<mw, mop, reqBody, query, rawPath, consumed, errCalls, validated,
                   handlerWrote, recorder>>
    /\ UNCHANGED <<rvars, dvars, cvars, kvars>>

NextMiddleware == Query_Apply \/ Body_Apply \/ Path_Apply \/ Resp_Apply
                  \/ Resp_AfterNext \/ NextServe \/ ErrHandle

(***************************************************************************)
(* Calls of the converter: the arguments are drawn from the types and      *)
(* formats of OAS 2.0 and others, and from strings that cover the words    *)
(* taken as true, the ends of the integer ranges and short strings.        *)
(***************************************************************************)
Types == {"string", "number", "integer", "boolean", "array", "file", "object"}
Formats == {"", "int32", "int64", "float", "double", "date"}

ToUpperChar(c) ==
    IF \E i \in 1..Len(LowerChars) : LowerChars[i] = c
    THEN UpperChars[CHOOSE i \in 1..Len(LowerChars) : LowerChars[i] = c]
    ELSE c
ToUpper(s) == [i \in 1..Len(s) |-> ToUpperChar(s[i])]
\* the first character in upper case, the rest as it is
Capitalized(s) == IF s = <<>> THEN s ELSE <<ToUpperChar(Head(s))>> \o Tail(s)

BoolStrings ==
    evaluatesAsTrue
    \cup {ToUpper(w) : w \in evaluatesAsTrue}
    \cup {Capitalized(w) : w \in evaluatesAsTrue}
    \cup {<<"f", "a", "l", "s", "e">>, <<"n", "o">>, <<"o", "f", "f">>,
          <<"t", "r", "u">>, <<"t", "r", "u", "e", "e">>, <<" ", "y", "e", "s">>,
          <<"o", "k", " ">>, <<"2">>}

IntStrings ==
    {MaxInt32, MinInt32Mag, <<"-">> \o MinInt32Mag,
     <<"-", "2", "1", "4", "7", "4", "8", "3", "6", "4", "9">>,
     <<"4", "2", "9", "4", "9", "6", "7", "2", "9", "7">>,
     MaxInt64, MinInt64Mag, <<"-">> \o MinInt64Mag,
     <<"-", "9", "2", "2", "3", "3", "7", "2", "0", "3", "6",
       "8", "5", "4", "7", "7", "5", "8", "0", "9">>,
     <<"1", "8", "4", "4", "6", "7", "4", "4", "0", "7", "3",
       "7", "0", "9", "5", "5", "1", "6", "1", "7">>,
     <<"+">> \o MaxInt32, <<"0", "0">> \o MinInt32Mag, <<"0", "0", "7">>,
     <<"1", "2", "a">>, <<"1", " ">>, <<"-", "-", "1">>}

StrAlphabet == {"0", "1", "-", "+", "t", "T", "y", "o"}
StrInputs == BoolStrings \cup IntStrings \cup SeqsUpTo(StrAlphabet, MaxStr)
ValInputs == {<<"1">>, <<"t">>, <<"-", "1">>, <<"o">>}

InitConvert ==
    /\ \/ cmode = "primitive" /\ cvals \in {<<v>> : v \in StrInputs}
       \/ cmode = "parameter" /\ cvals \in SeqsUpTo(ValInputs, MaxVals)
    /\ ctyp \in Types
    /\ cformat \in Formats
    /\ cpc = "start"
    /\ cres = Failed

IdleConvert ==
    /\ cmode = "none"
    /\ cvals = <<>>
    /\ ctyp = ""
    /\ cformat = ""
    /\ cpc = "done"
    /\ cres = Failed

\* convert.go:36  a call ConvertPrimitive(val, typ, format)
Conv_Primitive ==
    /\ cmode = "primitive"
    /\ cpc = "start"
    /\ cres' = ConvertPrimitive(cvals[1], ctyp, cformat)
    /\ cpc' = "done"
    /\ UNCHANGED <<cmode, cvals, ctyp, cformat>>
    /\ UNCHANGED <<rvars, dvars, mvars, kvars>>

\* convert.go:12  a call ConvertParameter(vals, typ, format)
Conv_Parameter ==
    /\ cmode = "parameter"
    /\ cpc = "start"
    /\ cres' = ConvertParameter(cvals, ctyp, cformat)
    /\ cpc' = "done"
    /\ UNCHANGED <<cmode, cvals, ctyp, cformat>>
    /\ UNCHANGED <<rvars, dvars, mvars, kvars>>

NextConvert == Conv_Primitive \/ Conv_Parameter

(***************************************************************************)
(* Several requests in flight through one pathParameterExtractor: each     *)
(* call of the handler Apply returned runs in its own goroutine, and the   *)
(* calls interleave at every statement that reads or builds a request.     *)
(***************************************************************************)
NumReqs == 2
Reqs == 1..NumReqs
\* the requests the server hands in, and the one each call derives
Incoming(r) == r
Derived(r) == NumReqs + r
Slots == 1..(2 * NumReqs)

\* the operations of the document a request can be matched to
KOpIds == 0..2
KOp(id) ==
    IF id = 1
    THEN [id |-> 1,
          params |-> <<[name |-> "id", in |-> "path", type |-> "integer",
                        format |-> "", required |-> TRUE],
                       [name |-> "tag", in |-> "path", type |-> "string",
                        format |-> "", required |-> TRUE]>>]
    ELSE IF id = 2
    THEN [id |-> 2,
          params |-> <<[name |-> "id", in |-> "path", type |-> "boolean",
                        format |-> "", required |-> TRUE],
                       [name |-> "tag", in |-> "query", type |-> "integer",
                        format |-> "", required |-> FALSE]>>]
    ELSE [id |-> 0, params |-> <<>>]
KRawValues == {<<"1", "2">>, <<"a", "b", "c">>}

NoRequest == [live |-> FALSE, op |-> 0, raw |-> [n \in Names |-> <<>>],
              pathParams |-> NoPathParams]
NotServed == [calls |-> 0, op |-> 0, pathParams |-> NoPathParams]

\* a slip: the value is stored in the request the call was given
WithContextInPlace(heap, ptr, slot, name, value) ==
    [heap |-> [heap EXCEPT ![ptr].pathParams[name] = value], ptr |-> ptr]
\* middleware.go:131-133  req.WithContext(context.WithValue(req.Context(),
\* key, value)): a copy of the request with a context derived from its own
WithContext(heap, ptr, slot, name, value) ==
    [heap |-> [heap EXCEPT ![slot] =
                  [heap[ptr] EXCEPT !.live = TRUE, !.pathParams[name] = value]],
     ptr |-> slot]

InitConcurrent ==
    /\ kin \in [Reqs -> [live : {TRUE}, op : KOpIds, raw : [Names -> KRawValues],
                         pathParams : {NoPathParams}]]
    /\ kreqs = [sl \in Slots |-> IF sl \in Reqs THEN kin[sl] ELSE NoRequest]
    /\ kloc = [r \in Reqs |-> [pc |-> "start", req |-> Incoming(r), idx |-> 1]]
    /\ ksaw = [r \in Reqs |-> NotServed]
IdleConcurrent ==
    /\ kreqs = [sl \in Slots |-> NoRequest]
    /\ kin = [r \in Reqs |-> NoRequest]
    /\ kloc = [r \in Reqs |-> [pc |-> "done", req |-> Incoming(r), idx |-> 1]]
    /\ ksaw = [r \in Reqs |-> NotServed]

\* middleware.go:118-122  op := GetOperation(req); without an operation
\* the call goes straight to next
K_Enter(r) ==
    /\ kloc[r].pc = "start"
    /\ kloc' = [kloc EXCEPT ![r].pc =
                   IF kreqs[kloc[r].req].op = 0 THEN "next" ELSE "loop"]
    /\ UNCHANGED <<kreqs, kin, ksaw>>
    /\ UNCHANGED <<rvars, dvars, mvars, cvars>>

\* middleware.go:124-135  one iteration of the loop over op.Parameters
K_Param(r) ==
    LET op == KOp(kin[r].op)
        req == kloc[r].req
    IN /\ kloc[r].pc = "loop"
       /\ kloc[r].idx <= Len(op.params)
       /\ LET prm == op.params[kloc[r].idx]
              res == ConvertPrimitive(kreqs[req].raw[prm.name], prm.type, prm.format)
              w == WithContext(kreqs, req, Derived(r), prm.name, res.value)
          IN IF prm.in = "path" /\ ~res.err
             THEN /\ kreqs' = w.heap
                  /\ kloc' = [kloc EXCEPT ![r].req = w.ptr, ![r].idx = @ + 1]
             ELSE /\ kloc' = [kloc EXCEPT ![r].idx = @ + 1]
                  /\ UNCHANGED kreqs
       /\ UNCHANGED <<kin, ksaw>>
       /\ UNCHANGED <<rvars, dvars, mvars, cvars>>

\* middleware.go:120, 137  next.ServeHTTP(w, req): the downstream handler
\* reads the operation and the path parameters of the request it is given
K_ServeNext(r) ==
    /\ \/ kloc[r].pc = "next"
       \/ kloc[r].pc = "loop" /\ kloc[r].idx > Len(KOp(kin[r].op).params)
    /\ ksaw' = [ksaw EXCEPT ![r] =
                   [calls |-> @.calls + 1,
                    op |-> kreqs[kloc[r].req].op,
                    pathParams |-> [n \in Names |-> GetPathParam(kreqs[kloc[r].req], n)]]]
    /\ kloc' = [kloc EXCEPT ![r].pc = "done"]
    /\ UNCHANGED <<kreqs, kin>>
    /\ UNCHANGED <<rvars, dvars, mvars, cvars>>

NextConcurrent == \E r \in Reqs : K_Enter(r) \/ K_Param(r) \/ K_ServeNext(r)

InitSpecRouter == InitRouter /\ IdleMiddleware /\ IdleConvert /\ IdleConcurrent
InitSpecMiddleware == IdleRouter /\ InitMiddleware /\ IdleConvert /\ IdleConcurrent
InitSpecConvert == IdleRouter /\ IdleMiddleware /\ InitConvert /\ IdleConcurrent
InitSpecConcurrent == IdleRouter /\ IdleMiddleware /\ IdleConvert /\ InitConcurrent

SpecRouter == InitSpecRouter /\ [][NextRouter]_vars
SpecMiddleware == InitSpecMiddleware /\ [][NextMiddleware]_vars
SpecConvert == InitSpecConvert /\ [][NextConvert]_vars
SpecConcurrent == InitSpecConcurrent /\ [][NextConcurrent]_vars

(***************************************************************************)
(* Claims about NewRouter and the handlers it registers (SpecRouter).      *)
(***************************************************************************)
TraceNames == [i \in 1..Len(dtrace) |-> dtrace[i].name]
RequestDone == dop # 0 /\ dchain = <<>>

\* C1 (as stated): with custom middlewares appended in the order A, B, a
\* dispatched request runs A, then B, then the operation-identity stamp,
\* then the handler H.
C1_OrderAsStated ==
    RequestDone => TraceNames = opts.mws \o <<"stamp", "H">>

\* C1 (amended): a dispatched request runs the operation-identity stamp
\* first, then the custom middlewares from the last appended to the first
\* appended (B, then A), then the handler H.
C1_StampThenReversedThenHandler ==
    dop # 0 =>
        LET expected == <<"stamp">> \o Reverse(opts.mws) \o <<"H">>
        IN /\ Len(dtrace) <= Len(expected)
           /\ TraceNames = SubSeq(expected, 1, Len(dtrace))
           /\ (dchain = <<>> => TraceNames = expected)

C1_Witness ==
    /\ RequestDone
    /\ opts.mws = <<"A", "B">>
    /\ TraceNames = <<"stamp", "B", "A", "H">>

\* C2: on every dispatched request the operation-identity stamp runs before
\* any custom middleware, and every custom middleware and the handler read
\* a matched operation that is present and is the operation of the route.
C2_StampFirstAndOperationSeen ==
    dop # 0 =>
        /\ \A i \in 1..Len(dtrace) :
               /\ dtrace[i].saw = dop
               /\ (dtrace[i].name = "stamp") = (i = 1)
        /\ (dchain = <<>> => Len(dtrace) = Len(opts.mws) + 2)

C2_Witness ==
    /\ RequestDone
    /\ Len(opts.mws) = 2
    /\ dtrace[1].name = "stamp"
    /\ \A i \in 2..Len(dtrace) : dtrace[i].name # "stamp" /\ dtrace[i].saw = dop
    /\ dtrace[Len(dtrace)].name = "H"

WarnCount(op) == Cardinality({i \in 1..Len(log) : log[i].level = "warn" /\ log[i].op = op})
RoutedOn(r, op) == \E e \in routes[r] : e.method = OpMethod(op) /\ e.path = OpPath(op)
Visited == IF rpc \in {"loop", "done"} THEN Ops \ pending ELSE {}

\* C9: an operation with no handler in the registry causes exactly one
\* warning log call and no Route call for its (method, path); an operation
\* with a handler is routed; the build returns a router and no error.
C9_MissingHandlerSkipped ==
    /\ \A op \in Visited :
          IF op \in handlers
          THEN /\ RoutedOn(subrouter, op)
               /\ WarnCount(op) = 0
          ELSE /\ WarnCount(op) = 1
               /\ \A r \in Routers : ~RoutedOn(r, op)
    /\ \A op \in Ops \ Visited : WarnCount(op) = 0 /\ \A r \in Routers : ~RoutedOn(r, op)
    /\ (rpc = "done" => result.err = "nil" /\ result.router \in Routers)

C9_Witness ==
    /\ rpc = "done"
    /\ \E op \in Ops : op \notin handlers /\ WarnCount(op) = 1
    /\ \E op \in Ops : op \in handlers /\ RoutedOn(result.router, op)
    /\ result.err = "nil"

\* C10: the operation routes are registered on a sub-router that is a
\* different router from the returned top-level router, the sub-router is
\* mounted at the base path, the returned router serves an operation only
\* at base path + operation path, and no router is mounted on itself.
C10_FreshSubrouterMounted ==
    rpc = "done" =>
        /\ subrouter # router
        /\ [prefix |-> basePath, target |-> subrouter] \in mounts[router]
        /\ \A r \in Routers : \A m \in mounts[r] : m.target # r
        /\ \A op \in Ops, path \in RequestPaths :
               Resolve(result.router, OpMethod(op), path, MaxDepth) # {}
                   => path = basePath \o OpPath(op)

\* C11: when the contract analysis fails while NewRouter builds the
\* Operations view, NewRouter returns a non-nil error to its caller and no
\* usable router.
C11_AnalysisFailureReturned ==
    (analysis = "fails" /\ rpc \notin {"idle", "options"}) =>
        /\ result.err \notin {"nil", "none"}
        /\ result.router = 0

\* how many layers of handler h satisfy the test
CountLayers(h, Test(_)) == Cardinality({i \in 1..Len(h) : Test(h[i])})
CountIn(seq, x) == Cardinality({i \in 1..Len(seq) : seq[i] = x})

\* C19: whatever the order in which NewRouter visits the operations, the
\* handler registered for a routed (method, path) ends in the handler the
\* registry holds for that operation's identifier, wraps it with each
\* configured custom middleware exactly once and with the stamp of that
\* operation exactly once, and holds no layer of another operation.
C19_HandlerOfItsOwnOperation ==
    \A r \in Routers : \A e \in routes[r] :
        LET op == OpAt(e.method, e.path)
            h == e.handler
            IsHandler(l) == l.kind = "handler"
            IsStamp(l) == l.kind = "stamp"
            IsMw(l) == l.kind = "mw"
        IN /\ op \in handlers
           /\ h[Len(h)] = [kind |-> "handler", name |-> "H", op |-> op]
           /\ CountLayers(h, IsHandler) = 1
           /\ CountLayers(h, IsStamp) = 1
           /\ \A i \in 1..Len(h) : IsStamp(h[i]) => h[i].op = op
           /\ CountLayers(h, IsMw) = Len(opts.mws)
           /\ \A name \in MwNames :
                 Cardinality({i \in 1..Len(h) : IsMw(h[i]) /\ h[i].name = name})
                     = CountIn(opts.mws, name)
           /\ \A i \in 1..Len(h) : h[i].op \in {0, op}

C19_Witness ==
    /\ rpc = "done"
    /\ handlers = Ops
    /\ Len(opts.mws) = 2
    /\ \A op \in Ops : RoutedOn(result.router, op)
    /\ log[1].op = NumOps

(***************************************************************************)
(* Claims about the middlewares (SpecMiddleware).                          *)
(***************************************************************************)
\* C3: through the response body validator, the status and bytes the
\* client receives are exactly those the downstream handler wrote, whatever
\* validation finds and whatever the error handler does with its sink.
C3_ClientReceivesHandlerOutput ==
    (mw = "response" /\ mpc = "done") =>
        /\ client.status = handlerWrote.status
        /\ client.body = handlerWrote.body

\* C4: when the body validator accepts a payload and calls the downstream
\* handler, the body the handler can read is the whole original payload,
\* however much of the stream the decoder consumed.
C4_BodyReplayedInFull ==
    (mw = "body" /\ mop.id # 0 /\ reqBody.kind = "reader" /\ nextCalls > 0) =>
        nextSaw.body = reqBody.data

\* C5: in the query validator with a matched operation, a non-empty list
\* of violations goes to the error handler exactly once, whole, and next is
\* never called; an empty list means no error handler call and exactly one
\* call of next.
C5_QueryViolationsStopTheChain ==
    (mw = "query" /\ mop.id # 0 /\ mpc # "start") =>
        LET errs == ValidateQuery(mop.params, query)
        IN IF errs # <<>>
           THEN errCalls = <<errs>> /\ nextCalls = 0
           ELSE errCalls = <<>> /\ nextCalls = 1

C5_Witness ==
    /\ mw = "query"
    /\ mop.id # 0
    /\ mpc = "done"
    /\ nextCalls = 0
    /\ errCalls = << <<[param |-> "id", what |-> "required"],
                      [param |-> "tag", what |-> "invalid"]>> >>

\* C6: in the body validator with a matched operation and a non-empty
\* body, a payload that does not decode causes exactly one error handler
\* call with exactly one error and no schema validation; a decoded payload
\* with violations causes exactly one error handler call with them; next is
\* called in neither case.
C6_BodyErrorsStopTheChain ==
    (mw = "body" /\ mop.id # 0 /\ reqBody.data # <<>> /\ mpc # "start") =>
        LET d == DecodeFirst(reqBody.data)
            errs == ValidateBody(mop, d.kind)
        IN /\ ~d.ok =>
                /\ Len(errCalls) = 1
                /\ Len(errCalls[1]) = 1
                /\ validated = 0
                /\ nextCalls = 0
           /\ (d.ok /\ errs # <<>>) =>
                /\ errCalls = <<errs>>
                /\ validated = 1
                /\ nextCalls = 0

C6_Witness ==
    /\ mw = "body"
    /\ mpc = "done"
    /\ mop.bodySchema = "object"
    /\ reqBody.data = <<"1", "1">>
    /\ errCalls = << <<[param |-> "body", what |-> "schema"]>> >>
    /\ validated = 1
    /\ nextCalls = 0

\* C7: for a request whose body is empty, the body validator calls next
\* exactly once and never calls the error handler, whether or not an
\* operation is matched and however the empty body is represented.
C7_EmptyBodyPassesThrough ==
    (mw = "body" /\ reqBody.data = <<>> /\ mpc # "start") =>
        /\ nextCalls = 1
        /\ errCalls = <<>>

\* the value the extractor is to store under name n
PathParamOf(n) ==
    LET at == {i \in 1..Len(mop.params) :
                  mop.params[i].name = n /\ mop.params[i].in = "path"}
    IN IF at = {} THEN NilValue
       ELSE LET p == mop.params[CHOOSE i \in at : TRUE]
            IN ConvertPrimitive(rawPath[n], p.type, p.format).value

\* C8: after the path parameter extractor, with a matched operation, the
\* request given to next holds a value under n exactly when n is a path
\* parameter whose raw value converts, and it is the converted value; a
\* failed conversion stores nothing and removes nothing, nothing is written
\* to the client by the extractor, and next is called exactly once.
C8_PathParamsStored ==
    (mw = "path" /\ mop.id # 0 /\ mpc # "start") =>
        /\ \A n \in Names :
              LET got == GetPathParam(nextSaw, n)
              IN /\ got = PathParamOf(n)
                 /\ got.typ \in {"int32", "int64"} => IsDecimal(rawPath[n])
                 /\ got.typ = "string" => got.v = rawPath[n]
        /\ nextCalls = 1
        /\ errCalls = <<>>
        /\ (mpc = "next" => client = FreshSink)
        /\ (mpc = "done" => client.status = handlerWrote.status
                            /\ client.body = handlerWrote.body)

C8_Witness ==
    /\ mw = "path"
    /\ mpc = "done"
    /\ Len(mop.params) = 2
    /\ \A i \in 1..2 : mop.params[i].in = "path" /\ mop.params[i].type = "integer"
                         /\ mop.params[i].format = ""
    /\ rawPath["id"] = <<"a", "b", "c">>
    /\ rawPath["tag"] = <<"1", "2">>
    /\ GetPathParam(nextSaw, "id") = NilValue
    /\ GetPathParam(nextSaw, "tag") = [typ |-> "int64", v |-> <<"1", "2">>]
    /\ nextCalls = 1

\* s without the spaces at its ends
RECURSIVE Trim(_)
Trim(s) ==
    IF s = <<>> THEN s
    ELSE IF Head(s) = " " THEN Trim(Tail(s))
    ELSE IF s[Len(s)] = " " THEN Trim(SubSeq(s, 1, Len(s) - 1))
    ELSE s
\* the whole payload is a JSON number, or a JSON object, between spaces
IsNumberText(s) == Trim(s) # <<>> /\ \A i \in 1..Len(Trim(s)) : Trim(s)[i] = "1"
IsObjectText(s) ==
    LET t == Trim(s)
    IN /\ Len(t) >= 2
       /\ t[1] = "{"
       /\ t[Len(t)] = "}"
       /\ \A i \in 2..(Len(t) - 1) : t[i] = " "

\* C16: in the response body validator with a matched operation, next is
\* called exactly once and has returned before any validation; the error
\* handler is called at most once, and only when the operation declares a
\* response for the captured status, the response has a schema, the
\* captured payload decodes and validation finds violations; with no
\* declared response, no schema or a decode failure it is never called.
C16_ResponseValidatedAfterHandler ==
    (mw = "response" /\ mop.id # 0 /\ mpc # "start") =>
        /\ nextCalls = 1
        /\ Len(errCalls) <= 1
        /\ (mpc \in {"next", "afterNext"} => validated = 0 /\ errCalls = <<>>)
        /\ (validated > 0 \/ errCalls # <<>>) =>
              /\ recorder = [status |-> handlerWrote.status, payload |-> handlerWrote.body]
              /\ mop.responses[recorder.status] \notin {"absent", "noschema"}
              /\ IsNumberText(recorder.payload) \/ IsObjectText(recorder.payload)
        /\ errCalls # <<>> =>
              /\ validated = 1
              /\ mop.responses[recorder.status] = "object"
              /\ IsNumberText(recorder.payload)
              /\ errCalls = <<ValidateBySchema("object", "number")>>

C16_Witness ==
    /\ mw = "response"
    /\ mop.id # 0
    /\ mpc = "done"
    /\ nextCalls = 1
    /\ recorder = [status |-> 200, payload |-> <<" ", "1", " ">>]
    /\ mop.responses[200] = "object"
    /\ Len(errCalls) = 1

\* C17: with no matched operation, each of the four middlewares is a
\* pass-through: it calls next exactly once with the request, its body and
\* the response sink unchanged, never calls the error handler and stores
\* no path parameter.
C17_NoOperationPassThrough ==
    (mw \in {"query", "body", "path", "response"} /\ mop.id = 0 /\ mpc # "start") =>
        /\ mpc \in {"next", "done"}
        /\ nextCalls = 1
        /\ errCalls = <<>>
        /\ validated = 0
        /\ consumed = 0
        /\ nextSaw = [op |-> 0, pathParams |-> NoPathParams, body |-> reqBody.data]
        /\ recorder = [status |-> 0, payload |-> <<>>]
        /\ (mpc = "next" => client = FreshSink)
        /\ (mpc = "done" => client.status = handlerWrote.status
                            /\ client.body = handlerWrote.body)

C17_Witness ==
    /\ mw = "body"
    /\ mop.id = 0
    /\ mpc = "done"
    /\ reqBody = [kind |-> "reader", data |-> <<"x">>]
    /\ nextCalls = 1
    /\ nextSaw.body = <<"x">>
    /\ errCalls = <<>>

(***************************************************************************)
(* Claims about the converter (SpecConvert).                               *)
(***************************************************************************)
PrimitiveDone == cmode = "primitive" /\ cpc = "done"

\* the words the claim lists as true
TrueWords ==
    {<<"t", "r", "u", "e">>, <<"1">>, <<"y", "e", "s">>, <<"o", "k">>, <<"y">>,
     <<"o", "n">>, <<"s", "e", "l", "e", "c", "t", "e", "d">>,
     <<"c", "h", "e", "c", "k", "e", "d">>, <<"t">>,
     <<"e", "n", "a", "b", "l", "e", "d">>}
\* v is the lower-case word w up to the case of its letters
SameUpToCase(v, w) ==
    /\ Len(v) = Len(w)
    /\ \A i \in 1..Len(w) : v[i] = w[i] \/ v[i] = ToUpperChar(w[i])

\* C12: for every string v and every format, ConvertPrimitive(v,
\* "boolean", f) returns no error, and its result is true exactly when the
\* lower-cased v is one of true, 1, yes, ok, y, on, selected, checked, t,
\* enabled, and false otherwise.
C12_BooleanTotal ==
    (PrimitiveDone /\ ctyp = "boolean") =>
        /\ ~cres.err
        /\ cres.value.typ = "bool"
        /\ cres.value.v \in {<<"true">>, <<"false">>}
        /\ (cres.value.v = <<"true">>)
               = (\E w \in TrueWords : SameUpToCase(cvals[1], w))

C12_Witness ==
    /\ PrimitiveDone
    /\ ctyp = "boolean"
    /\ cformat = "date"
    /\ cvals = << <<"Y", "E", "S">> >>
    /\ cres = [err |-> FALSE, value |-> [typ |-> "bool", v |-> <<"true">>]]

\* the (type, format) pairs the converter supports
InTable(typ, format) ==
    \/ typ = "string" /\ format = ""
    \/ typ = "integer" /\ format \in {"", "int32", "int64"}
    \/ typ = "number" /\ format \in {"", "float", "double"}
    \/ typ = "boolean"

\* C13: ConvertPrimitive returns an error, whatever the value, for every
\* (type, format) pair outside the table, types array and file and unknown
\* types included; for string with format "" it returns the input value
\* unchanged and no error.
C13_OutsideTableIsError ==
    PrimitiveDone =>
        /\ ~InTable(ctyp, cformat) => cres.err /\ cres.value = NilValue
        /\ (ctyp = "string" /\ cformat = "") =>
               cres = [err |-> FALSE, value |-> [typ |-> "string", v |-> cvals[1]]]

C13_Witness ==
    /\ PrimitiveDone
    /\ ctyp = "string"
    /\ cformat = "date"
    /\ cvals = << <<"1">> >>
    /\ cres.err

\* C14: ConvertParameter returns an error for type array or file however
\* many values are given; for another type it returns an arity error when
\* the number of values is not 1 (boolean with no value included), and
\* otherwise exactly the value and error of ConvertPrimitive(vals[0], type,
\* format).
C14_ParameterArity ==
    (cmode = "parameter" /\ cpc = "done") =>
        IF ctyp \in {"array", "file"} THEN cres.err
        ELSE IF Len(cvals) # 1 THEN cres.err /\ cres.value = NilValue
        ELSE cres = ConvertPrimitive(cvals[1], ctyp, cformat)

C14_Witness ==
    /\ cmode = "parameter"
    /\ cpc = "done"
    /\ ctyp = "boolean"
    /\ Len(cvals) = 2
    /\ cres.err

(***************************************************************************)
(* Integers too wide for the checker's own arithmetic are compared as      *)
(* sequences of groups of five decimal digits, most significant first.     *)
(***************************************************************************)
RECURSIVE NumOf(_)
NumOf(d) == IF d = <<>> THEN 0 ELSE 10 * NumOf(SubSeq(d, 1, Len(d) - 1)) + DigitVal(d[Len(d)])

RECURSIVE Groups(_)
Groups(d) ==
    IF Len(d) <= 5 THEN <<NumOf(d)>>
    ELSE Append(Groups(SubSeq(d, 1, Len(d) - 5)), NumOf(SubSeq(d, Len(d) - 4, Len(d))))

\* the groups without leading zero groups
RECURSIVE Normal(_)
Normal(g) == IF Len(g) > 1 /\ Head(g) = 0 THEN Normal(Tail(g)) ELSE g

RECURSIVE GroupsLeq(_, _)
GroupsLeq(a, b) ==
    IF Len(a) # Len(b) THEN Len(a) < Len(b)
    ELSE IF a = <<>> THEN TRUE
    ELSE IF Head(a) # Head(b) THEN Head(a) < Head(b)
    ELSE GroupsLeq(Tail(a), Tail(b))

\* 2^31 - 1, 2^31, 2^63 - 1, 2^63
Top(bits) == IF bits = 32 THEN <<21474, 83647>> ELSE <<9223, 37203, 68547, 75807>>
Bottom(bits) == IF bits = 32 THEN <<21474, 83648>> ELSE <<9223, 37203, 68547, 75808>>

Body(s) == IF s # <<>> /\ s[1] \in {"+", "-"} THEN Tail(s) ELSE s
IsBase10(s) ==
    /\ Body(s) # <<>>
    /\ \A i \in 1..Len(Body(s)) :
          Body(s)[i] \in {"0", "1", "2", "3", "4", "5", "6", "7", "8", "9"}
Magnitude(s) == Normal(Groups(Body(s)))
IsNegative(s) == s # <<>> /\ s[1] = "-" /\ Magnitude(s) # <<0>>
InRange(s, bits) ==
    GroupsLeq(Magnitude(s), IF IsNegative(s) THEN Bottom(bits) ELSE Top(bits))
SameInteger(a, b) == Magnitude(a) = Magnitude(b) /\ IsNegative(a) = IsNegative(b)

\* C18: for type integer with format "int32", ConvertPrimitive succeeds
\* exactly when the value is a base-10 integer in [-2^31, 2^31 - 1] and
\* then returns that integer; a value out of the range is an error, never
\* wrapped or truncated. With format "" or "int64" the same holds of
\* [-2^63, 2^63 - 1].
C18_IntegerRange ==
    (PrimitiveDone /\ ctyp = "integer" /\ cformat \in {"int32", "int64", ""}) =>
        LET bits == IF cformat = "int32" THEN 32 ELSE 64
            v == cvals[1]
        IN /\ (~cres.err) = (IsBase10(v) /\ InRange(v, bits))
           /\ ~cres.err =>
                /\ cres.value.typ = (IF bits = 32 THEN "int32" ELSE "int64")
                /\ SameInteger(cres.value.v, v)
           /\ cres.err => cres.value = NilValue

C18_Witness ==
    /\ PrimitiveDone
    /\ ctyp = "integer"
    /\ cformat = "int32"
    /\ cvals = <<MinInt32Mag>>
    /\ cres.err

(***************************************************************************)
(* Claims about requests served concurrently (SpecConcurrent).             *)
(***************************************************************************)
\* C15: with several requests in flight through one extractor, in every
\* interleaving, the request each call was given is never changed, and the
\* operation and path parameters the downstream handler of a call reads
\* are those of that call's own request: its operation, and the values
\* converted from its own path.
C15_RequestsIsolated ==
    \A r \in Reqs :
        /\ kreqs[Incoming(r)] = kin[r]
        /\ ksaw[r].calls <= 1
        /\ kloc[r].pc = "done" => ksaw[r].calls = 1
        /\ ksaw[r].calls = 1 =>
              /\ ksaw[r].op = kin[r].op
              /\ ksaw[r].pathParams =
                    ExtractParams(KOp(kin[r].op).params, kin[r].raw, kin[r].pathParams)

\* one call has served next with a converted value while another call,
\* matched to another operation, is in its loop with a request of its own
C15_Witness ==
    /\ ksaw[1].calls = 1
    /\ ksaw[1].pathParams # NoPathParams
    /\ kloc[2].pc = "loop"
    /\ kloc[2].idx = 2
    /\ kloc[2].req = Derived(2)
    /\ kin[1].op # kin[2].op
    /\ kin[1].raw # kin[2].raw
    /\ ksaw[1].pathParams # kreqs[Derived(2)].pathParams

====
